---- MODULE Spec2Model ----
(***************************************************************************)
(* Lifecycle of one microfab Peer (internal/pkg/peer/peer.go): Start(),    *)
(* its monitor goroutine, the select loop racing timeout / process exit /  *)
(* probe tick, and Stop(); together with the on-disk material written by   *)
(* createDirectories, util.CreateMSPDirectory and createConfig.            *)
(***************************************************************************)
EXTENDS Integers, Sequences, FiniteSets, TLC

\* Number of Start()/Stop() calls a caller makes on the Peer.
MaxCalls == 3

\* Capacity of errchan: make(chan error, 1).
ChanCap == 1

\* Number of processes the Peer spawns over its life.
MaxProcs == 2

Procs == 1..MaxProcs
NoProc == 0

Max(a, b) == IF a >= b THEN a ELSE b

VARIABLES
    command,    \* p.command: NoProc (nil) or the process the handle refers to
    procState,  \* OS state of each process spawned by cmd.Start()
    exitCause,  \* why a process ended: what cmd.Wait() reports
    monitor,    \* position of the goroutine "err = cmd.Wait(); errchan <- err"
    errchan,    \* the errchan of each Start() call, keyed by the process it spawned
    pc,         \* position of the caller inside Start(); "idle" between calls
    timeout,    \* time.After(10s) of the current Start(): unset, armed, fired
    tick,       \* TRUE when time.Tick's channel holds a tick
    disk,       \* the node's directory tree, MSP directory, core.yaml, peer.log
    ret,        \* the last call and the error it returned
    call,       \* the current / last Start(): handle at entry, spawned process
    tmpl,       \* sections of the config map the last createConfig unmarshalled
    probe,      \* what the hasStarted() that ended the wait saw
    recvd,      \* process whose exit the select loop received from errchan
    exitFirst,  \* the spawned process ended by itself before the timeout fired
    history,    \* outcome class of every completed call, in order
    probeFailed,\* a hasStarted() of the Start() in progress has returned false
    mspdir,     \* a call of util.CreateMSPDirectory: arguments and result
    desc        \* a call of msp.New: arguments and result

vars == <<command, procState, exitCause, monitor, errchan, pc, timeout, tick,
          disk, ret, call, tmpl, probe, recvd, exitFirst, history,
          probeFailed, mspdir, desc>>

----------------------------------------------------------------------------
\* Files and identities

AbsentFile == "absent"
PartialFile == "partial"

\* util.config, the fixed NodeOUs descriptor
ConfigYaml == "NodeOUs"
\* the patched template written to config/core.yaml
CoreYaml == "core.yaml"

\* The peer's identity is issued by the organization CA (UsingSigner).
PeerIdentity == [key |-> "KEY", cert |-> "CERT", ca |-> "CA"]

EmptyMSP == [dirs |-> 0, config |-> AbsentFile, key |-> AbsentFile,
             cert |-> AbsentFile, ca |-> AbsentFile]

\* ioutil.WriteFile as step i of a sequence whose step failAt fails (0: none).
WriteFile(i, failAt, old, data) ==
    IF failAt = 0 \/ failAt > i THEN data
    ELSE IF failAt = i THEN PartialFile
    ELSE old

\* Steps 1..5 are the MkdirAll calls, 6..9 the four WriteFile calls.
MSPSteps == 9

\* CreateMSPDirectory with the two PEM payloads exchanged.
CreateMSPDirectorySwapped(fs, identity, failAt) ==
    LET hasCA == identity.ca # "none"
        made  == IF failAt = 0 \/ failAt > 5 THEN 5 ELSE failAt - 1
    IN [fs  |-> [dirs   |-> Max(fs.dirs, made),
                 config |-> WriteFile(6, failAt, fs.config, ConfigYaml),
                 key    |-> WriteFile(7, failAt, fs.key, identity.cert),
                 cert   |-> WriteFile(8, failAt, fs.cert, identity.key),
                 ca     |-> IF hasCA THEN WriteFile(9, failAt, fs.ca, identity.ca)
                            ELSE fs.ca],
        err |-> IF failAt = 0 \/ (failAt = 9 /\ ~hasCA) THEN "nil" ELSE "io"]

CreateMSPDirectory(fs, identity, failAt) ==
    LET hasCA == identity.ca # "none"
        made  == IF failAt = 0 \/ failAt > 5 THEN 5 ELSE failAt - 1
    IN [fs  |-> [dirs   |-> Max(fs.dirs, made),
                 config |-> WriteFile(6, failAt, fs.config, ConfigYaml),
                 key    |-> WriteFile(7, failAt, fs.key, identity.key),
                 cert   |-> WriteFile(8, failAt, fs.cert, identity.cert),
                 ca     |-> IF hasCA THEN WriteFile(9, failAt, fs.ca, identity.ca)
                            ELSE fs.ca],
        err |-> IF failAt = 0 \/ (failAt = 9 /\ ~hasCA) THEN "nil" ELSE "io"]

MSPComplete(fs, identity) ==
    /\ fs.dirs = 5
    /\ fs.config = ConfigYaml
    /\ fs.key = identity.key
    /\ fs.cert = identity.cert
    /\ identity.ca # "none" => fs.ca = identity.ca

\* The five directories of createDirectories, in order.
TreeDirs == 5

createDirectories(tree, failAt) ==
    [tree |-> Max(tree, IF failAt = 0 THEN TreeDirs ELSE failAt - 1),
     err  |-> IF failAt = 0 THEN "nil" ELSE "io"]

----------------------------------------------------------------------------
\* createConfig

Sections == {"peer", "peer.gossip", "metrics", "operations", "vm", "chaincode"}

\* peer.gossip is nested in peer
Templates == {s \in SUBSET Sections : "peer.gossip" \in s => "peer" \in s}

MissingSection(s) == "core.yaml missing " \o s \o " section"

Envs == [cfgPathSet : BOOLEAN, readable : BOOLEAN, parses : BOOLEAN,
         sections : Templates, home : BOOLEAN, writable : BOOLEAN]

\* createConfig reporting a missing vm section under the name of the
\* next check.
createConfigWrongName(env) ==
    IF ~env.cfgPathSet THEN "FABRIC_CFG_PATH not defined"
    ELSE IF ~env.readable THEN "io"
    ELSE IF ~env.parses THEN "yaml"
    ELSE IF "peer" \notin env.sections THEN MissingSection("peer")
    ELSE IF "peer.gossip" \notin env.sections THEN MissingSection("peer.gossip")
    ELSE IF "metrics" \notin env.sections THEN MissingSection("metrics")
    ELSE IF "operations" \notin env.sections THEN MissingSection("operations")
    ELSE IF "vm" \notin env.sections THEN MissingSection("chaincode")
    ELSE IF "chaincode" \notin env.sections THEN MissingSection("chaincode")
    ELSE IF ~env.home THEN "home"
    ELSE IF ~env.writable THEN "io"
    ELSE "nil"

\* The error createConfig returns, "nil" for none.
createConfig(env) ==
    IF ~env.cfgPathSet THEN "FABRIC_CFG_PATH not defined"
    ELSE IF ~env.readable THEN "io"
    ELSE IF ~env.parses THEN "yaml"
    ELSE IF "peer" \notin env.sections THEN MissingSection("peer")
    ELSE IF "peer.gossip" \notin env.sections THEN MissingSection("peer.gossip")
    ELSE IF "metrics" \notin env.sections THEN MissingSection("metrics")
    ELSE IF "operations" \notin env.sections THEN MissingSection("operations")
    ELSE IF "vm" \notin env.sections THEN MissingSection("vm")
    ELSE IF "chaincode" \notin env.sections THEN MissingSection("chaincode")
    ELSE IF ~env.home THEN "home"
    ELSE IF ~env.writable THEN "io"
    ELSE "nil"

\* core.yaml written whatever the checks before it found.
createConfigWritesAlways(env) == TRUE

\* Whether createConfig reaches its only write, the final ioutil.WriteFile
\* of config/core.yaml.
createConfigWrites(env) ==
    /\ env.cfgPathSet
    /\ env.readable
    /\ env.parses
    /\ env.sections = Sections
    /\ env.home

\* What createConfig leaves in config/core.yaml.
createConfigFile(env, old) ==
    IF createConfig(env) = "nil" THEN CoreYaml
    ELSE IF createConfigWrites(env) THEN PartialFile
    ELSE old

\* No template was unmarshalled (yet).
Unread == {"unread"}

\* The sections of the map "config" after yaml.Unmarshal (peer.go 138-151).
TemplateRead(env) ==
    IF env.cfgPathSet /\ env.readable /\ env.parses THEN env.sections ELSE Unread

ConfigErrors ==
    {"FABRIC_CFG_PATH not defined"} \cup {MissingSection(s) : s \in Sections}

SetupErrors == ConfigErrors \cup {"io", "yaml", "home", "spawn"}

----------------------------------------------------------------------------
\* State

\* No call of util.CreateMSPDirectory / msp.New is being looked at.
NoMSPCall == [before |-> EmptyMSP, identity |-> PeerIdentity, failAt |-> 0,
              fs |-> EmptyMSP, err |-> "pending"]
NoMSP == [mspID |-> "", rootCertificates |-> <<>>, adminCertificates |-> <<>>]
NoDescCall == [mspID |-> "", roots |-> <<>>, admins |-> <<>>, out |-> NoMSP,
               err |-> "pending"]

FreshCall == [proc |-> NoProc, cmd0 |-> NoProc, n0 |-> 0, writes |-> {}]
NoProbe == [healthz |-> "none", connect |-> FALSE, list |-> FALSE]

NumSpawned == Cardinality({k \in Procs : procState[k] # "unborn"})

Running(k) == procState[k] = "running"

Waiting == pc \in {"select", "hasStarted"}

PeerInit ==
    /\ command = NoProc
    /\ procState = [k \in Procs |-> "unborn"]
    /\ exitCause = [k \in Procs |-> "none"]
    /\ monitor = [k \in Procs |-> "none"]
    /\ errchan = [k \in Procs |-> <<>>]
    /\ pc = "idle"
    /\ timeout = "unset"
    /\ tick = FALSE
    /\ disk = [tree |-> 0, msp |-> EmptyMSP, core |-> AbsentFile, log |-> FALSE]
    /\ ret = [op |-> "none", err |-> "nil"]
    /\ call = FreshCall
    /\ tmpl = Unread
    /\ probe = NoProbe
    /\ recvd = NoProc
    /\ exitFirst = FALSE
    /\ history = <<>>
    /\ probeFailed = FALSE

Init ==
    /\ PeerInit
    /\ mspdir = NoMSPCall
    /\ desc = NoDescCall

----------------------------------------------------------------------------
\* Helpers of the lifecycle

Class(op, err) ==
    IF op = "Stop" THEN (IF err = "nil" THEN "StopOk" ELSE "StopErr")
    ELSE IF err = "nil" THEN "StartOk"
    ELSE IF err = "timeout" THEN "StartTimeout"
    ELSE IF err = "exit" THEN "StartExit"
    ELSE "StartErr"

\* The error of a setup step dropped.
ProceedAlways(err) == TRUE

\* "if err != nil { return err }" after a setup step
Proceed(err) == err = "nil"

\* Start() returns err to its caller; its timer and ticker channels go out
\* of scope.
Return(err) ==
    /\ pc' = "idle"
    /\ ret' = [op |-> "Start", err |-> err]
    /\ history' = Append(history, Class("Start", err))
    /\ timeout' = "unset"
    /\ tick' = FALSE

\* One channel shared by every Start() call of the Peer.
ChanOfShared(k) == 1

\* The channel that belongs to the Start() call which spawned process k:
\* errchan is a local of Start, made anew by every call.
ChanOf(k) == k

\* Process.Kill() fails once cmd.Wait() has reaped the process
\* ("os: process already finished"); a running or not yet reaped process
\* accepts the signal.
KillFails(st) == st = "reaped"

\* Stop(): the new handle, the error, and the process that was signalled.
Stop(cmd) ==
    IF cmd = NoProc
    THEN [command |-> NoProc, err |-> "nil", signalled |-> NoProc]
    ELSE IF KillFails(procState[cmd])
    THEN [command |-> cmd, err |-> "failed to stop peer", signalled |-> NoProc]
    ELSE [command |-> NoProc, err |-> "nil", signalled |-> cmd]

\* SIGKILL delivered to process k (NoProc: no signal was sent).
Signal(k) ==
    IF k # NoProc /\ procState[k] = "running"
    THEN /\ procState' = [procState EXCEPT ![k] = "zombie"]
         /\ exitCause' = [exitCause EXCEPT ![k] = "killed"]
    ELSE UNCHANGED <<procState, exitCause>>

\* hasStarted() satisfied by the liveness phase alone.
hasStartedPhaseAOnly(healthz, connect, list) == healthz = "200"

\* hasStarted(): phase A is GET /healthz answering 200, phase B is Connect
\* as the organization admin followed by ListChannels.
hasStarted(healthz, connect, list) ==
    IF healthz # "200" THEN FALSE
    ELSE IF ~connect THEN FALSE
    ELSE IF ~list THEN FALSE
    ELSE TRUE

Healthz == {"connfail", "503", "200"}

\* A probe can only be answered by a running process of this peer, and a
\* phase is only evaluated when the one before it passed.
ProbeInputs ==
    {p \in [healthz : Healthz, connect : BOOLEAN, list : BOOLEAN] :
        /\ p.healthz = "200" => \E k \in Procs : Running(k)
        /\ p.connect => p.healthz = "200"
        /\ p.list => p.connect}

----------------------------------------------------------------------------
\* Start(), step by step

\* Entry of Start() and createDirectories (peer.go 260-264).
StartCreateDirectories ==
    /\ pc = "idle"
    /\ Len(history) < MaxCalls
    /\ NumSpawned < MaxProcs
    /\ tmpl' = Unread
    /\ probe' = NoProbe
    /\ recvd' = NoProc
    /\ exitFirst' = FALSE
    /\ \E failAt \in 0..TreeDirs :
          LET r == createDirectories(disk.tree, failAt) IN
          /\ call' = [proc |-> NoProc, cmd0 |-> command, n0 |-> NumSpawned,
                      writes |-> IF failAt = 1 THEN {} ELSE {"tree"}]
          /\ disk' = [disk EXCEPT !.tree = r.tree,
                                  !.msp.dirs = IF r.tree = TreeDirs
                                               THEN Max(@, 1) ELSE @]
          /\ IF Proceed(r.err)
             THEN /\ pc' = "CreateMSPDirectory"
                  /\ ret' = [op |-> "Start", err |-> "pending"]
                  /\ UNCHANGED <<history, timeout, tick>>
             ELSE Return(r.err)
    /\ UNCHANGED <<command, procState, exitCause, monitor, errchan>>
    /\ probeFailed' = FALSE
    /\ UNCHANGED <<mspdir, desc>>

\* util.CreateMSPDirectory(mspDirectory, p.identity) (peer.go 269-272).
StartCreateMSP ==
    /\ pc = "CreateMSPDirectory"
    /\ \E failAt \in 0..MSPSteps :
          LET r == CreateMSPDirectory(disk.msp, PeerIdentity, failAt) IN
          /\ disk' = [disk EXCEPT !.msp = r.fs]
          /\ call' = [call EXCEPT !.writes =
                          IF failAt = 1 THEN @ ELSE @ \cup {"msp"}]
          /\ IF Proceed(r.err)
             THEN pc' = "createConfig" /\ UNCHANGED <<ret, history, timeout, tick>>
             ELSE Return(r.err)
    /\ UNCHANGED <<command, procState, exitCause, monitor, errchan,
                   tmpl, probe, recvd, exitFirst>>
    /\ UNCHANGED <<probeFailed, mspdir, desc>>

\* p.createConfig(dataDirectory, mspDirectory) (peer.go 273-276).
StartCreateConfig ==
    /\ pc = "createConfig"
    /\ \E env \in Envs :
          /\ disk' = [disk EXCEPT !.core = createConfigFile(env, @)]
          /\ tmpl' = TemplateRead(env)
          /\ call' = [call EXCEPT !.writes =
                          IF createConfigWrites(env) THEN @ \cup {"core"} ELSE @]
          /\ IF Proceed(createConfig(env))
             THEN pc' = "spawn" /\ UNCHANGED <<ret, history, timeout, tick>>
             ELSE Return(createConfig(env))
    /\ UNCHANGED <<command, procState, exitCause, monitor, errchan,
                   probe, recvd, exitFirst>>
    /\ UNCHANGED <<probeFailed, mspdir, desc>>

\* The handle assigned before cmd.Start() has been checked.
StartSpawnEarlyHandle ==
    /\ pc = "spawn"
    /\ \E openOK, pipeOK, startOK \in BOOLEAN :
          LET k == NumSpawned + 1 IN
          /\ disk' = [disk EXCEPT !.log = @ \/ openOK]
          /\ IF ~openOK \/ ~pipeOK
             THEN /\ Return("io")
                  /\ call' = [call EXCEPT !.writes =
                                  IF openOK THEN @ \cup {"log"} ELSE @]
                  /\ UNCHANGED <<command, procState, monitor, errchan>>
             ELSE IF ~startOK
             THEN /\ Return("spawn")
                  /\ command' = k
                  /\ call' = [call EXCEPT !.writes = @ \cup {"log"}]
                  /\ UNCHANGED <<procState, monitor, errchan>>
             ELSE /\ procState' = [procState EXCEPT ![k] = "running"]
                  /\ command' = k
                  /\ errchan' = [errchan EXCEPT ![ChanOf(k)] = <<>>]
                  /\ monitor' = [monitor EXCEPT ![k] = "wait"]
                  /\ call' = [call EXCEPT !.proc = k, !.writes = @ \cup {"log"}]
                  /\ timeout' = "armed"
                  /\ tick' = FALSE
                  /\ pc' = "select"
                  /\ UNCHANGED <<ret, history>>
    /\ UNCHANGED <<exitCause, tmpl, probe, recvd, exitFirst>>
    /\ UNCHANGED <<probeFailed, mspdir, desc>>

\* exec.Command .. cmd.Start(), p.command = cmd, errchan, the monitor
\* goroutine, the timers (peer.go 277-307).
StartSpawn ==
    /\ pc = "spawn"
    /\ \E openOK, pipeOK, startOK \in BOOLEAN :
          LET k == NumSpawned + 1 IN
          /\ disk' = [disk EXCEPT !.log = @ \/ openOK]
          /\ IF ~openOK \/ ~pipeOK
             THEN /\ Return("io")
                  /\ call' = [call EXCEPT !.writes =
                                  IF openOK THEN @ \cup {"log"} ELSE @]
                  /\ UNCHANGED <<command, procState, monitor, errchan>>
             ELSE IF ~startOK
             THEN /\ Return("spawn")
                  /\ call' = [call EXCEPT !.writes = @ \cup {"log"}]
                  /\ UNCHANGED <<command, procState, monitor, errchan>>
             ELSE /\ procState' = [procState EXCEPT ![k] = "running"]
                  /\ command' = k
                  /\ errchan' = [errchan EXCEPT ![ChanOf(k)] = <<>>]
                  /\ monitor' = [monitor EXCEPT ![k] = "wait"]
                  /\ call' = [call EXCEPT !.proc = k, !.writes = @ \cup {"log"}]
                  /\ timeout' = "armed"
                  /\ tick' = FALSE
                  /\ pc' = "select"
                  /\ UNCHANGED <<ret, history>>
    /\ UNCHANGED <<exitCause, tmpl, probe, recvd, exitFirst>>
    /\ UNCHANGED <<probeFailed, mspdir, desc>>

\* time.After(10 * time.Second) delivers.
TimeoutFire ==
    /\ Waiting
    /\ timeout = "armed"
    /\ timeout' = "fired"
    /\ UNCHANGED <<command, procState, exitCause, monitor, errchan, pc, tick,
                   disk, ret, call, tmpl, probe, recvd, exitFirst, history>>
    /\ UNCHANGED <<probeFailed, mspdir, desc>>

\* time.Tick(250 * time.Millisecond) delivers; a tick that finds the
\* channel full is dropped.
Tick ==
    /\ Waiting
    /\ ~tick
    /\ tick' = TRUE
    /\ UNCHANGED <<command, procState, exitCause, monitor, errchan, pc,
                   timeout, disk, ret, call, tmpl, probe, recvd, exitFirst,
                   history>>
    /\ UNCHANGED <<probeFailed, mspdir, desc>>

\* The timeout case taken without a value on the timeout channel.
SelectTimeoutUnfired ==
    /\ pc = "select"
    /\ LET s == Stop(command) IN
          /\ command' = s.command
          /\ Signal(s.signalled)
    /\ Return("timeout")
    /\ UNCHANGED <<monitor, errchan, disk, call, tmpl, probe, recvd, exitFirst>>
    /\ probeFailed' = FALSE
    /\ UNCHANGED <<mspdir, desc>>

\* case <-timeout: p.Stop(); return timeout error (peer.go 310-312).
SelectTimeout ==
    /\ pc = "select"
    /\ timeout = "fired"
    /\ LET s == Stop(command) IN
          /\ command' = s.command
          /\ Signal(s.signalled)
    /\ Return("timeout")
    /\ UNCHANGED <<monitor, errchan, disk, call, tmpl, probe, recvd, exitFirst>>
    /\ probeFailed' = FALSE
    /\ UNCHANGED <<mspdir, desc>>

\* case err := <-errchan: p.Stop(); return wrapped error (peer.go 313-315).
SelectErrchan ==
    /\ pc = "select"
    /\ errchan[ChanOf(call.proc)] # <<>>
    /\ recvd' = Head(errchan[ChanOf(call.proc)]).proc
    /\ errchan' = [errchan EXCEPT ![ChanOf(call.proc)] = Tail(@)]
    /\ LET s == Stop(command) IN
          /\ command' = s.command
          /\ Signal(s.signalled)
    /\ Return("exit")
    /\ UNCHANGED <<monitor, disk, call, tmpl, probe, exitFirst>>
    /\ probeFailed' = FALSE
    /\ UNCHANGED <<mspdir, desc>>

\* The tick case taken with the tick left in the channel.
SelectTickKeepsTick ==
    /\ pc = "select"
    /\ tick
    /\ pc' = "hasStarted"
    /\ UNCHANGED <<command, procState, exitCause, monitor, errchan, timeout,
                   tick, disk, ret, call, tmpl, probe, recvd, exitFirst,
                   history>>
    /\ UNCHANGED <<probeFailed, mspdir, desc>>

\* case <-tick: the probe begins (peer.go 316-317).
SelectTick ==
    /\ pc = "select"
    /\ tick
    /\ tick' = FALSE
    /\ pc' = "hasStarted"
    /\ UNCHANGED <<command, procState, exitCause, monitor, errchan, timeout,
                   disk, ret, call, tmpl, probe, recvd, exitFirst, history>>
    /\ UNCHANGED <<probeFailed, mspdir, desc>>

\* A probe whose failure ends the wait: the process is stopped and the
\* failure returned.
ProbeReturnEscalates ==
    /\ pc = "hasStarted"
    /\ \E p \in ProbeInputs :
          /\ probeFailed' = ~hasStarted(p.healthz, p.connect, p.list)
          /\ IF hasStarted(p.healthz, p.connect, p.list)
             THEN /\ probe' = p
                  /\ Return("nil")
                  /\ UNCHANGED <<command, procState, exitCause>>
             ELSE /\ LET s == Stop(command) IN
                        /\ command' = s.command
                        /\ Signal(s.signalled)
                  /\ Return("probe")
                  /\ UNCHANGED probe
    /\ UNCHANGED <<monitor, errchan, disk, call, tmpl, recvd, exitFirst>>
    /\ UNCHANGED <<mspdir, desc>>

\* hasStarted() returns (peer.go 317-319).
ProbeReturn ==
    /\ pc = "hasStarted"
    /\ \E p \in ProbeInputs :
          /\ probeFailed' = ~hasStarted(p.healthz, p.connect, p.list)
          /\ IF hasStarted(p.healthz, p.connect, p.list)
             THEN probe' = p /\ Return("nil")
             ELSE /\ pc' = "select"
                  /\ UNCHANGED <<probe, ret, history, timeout, tick>>
    /\ UNCHANGED <<command, procState, exitCause, monitor, errchan, disk, call,
                   tmpl, recvd, exitFirst>>
    /\ UNCHANGED <<mspdir, desc>>

----------------------------------------------------------------------------
\* The spawned process and its monitor goroutine

ExitCauses == {"ok", "fail"}

\* The process ends by itself, with status 0 ("ok") or not ("fail").
ProcExit(k) ==
    /\ Running(k)
    /\ \E c \in ExitCauses : exitCause' = [exitCause EXCEPT ![k] = c]
    /\ procState' = [procState EXCEPT ![k] = "zombie"]
    /\ exitFirst' = (exitFirst \/ (k = call.proc /\ Waiting /\ timeout = "armed"))
    /\ UNCHANGED <<command, monitor, errchan, pc, timeout, tick, disk, ret,
                   call, tmpl, probe, recvd, history>>
    /\ UNCHANGED <<probeFailed, mspdir, desc>>

\* err = cmd.Wait() returns (peer.go 301-302): nil for status 0.
MonitorWait(k) ==
    /\ monitor[k] = "wait"
    /\ procState[k] = "zombie"
    /\ procState' = [procState EXCEPT ![k] = "reaped"]
    /\ monitor' = [monitor EXCEPT ![k] = IF exitCause[k] # "ok" THEN "send" ELSE "done"]
    /\ UNCHANGED <<command, exitCause, errchan, pc, timeout, tick, disk, ret,
                   call, tmpl, probe, recvd, exitFirst, history>>
    /\ UNCHANGED <<probeFailed, mspdir, desc>>

\* The send on a channel without a buffer: it needs Start() to be receiving.
MonitorSendUnbuffered(k) ==
    /\ monitor[k] = "send"
    /\ pc = "select"
    /\ call.proc = k
    /\ Len(errchan[ChanOf(k)]) < ChanCap
    /\ errchan' = [errchan EXCEPT ![ChanOf(k)] =
                      Append(@, [proc |-> k, cause |-> exitCause[k]])]
    /\ monitor' = [monitor EXCEPT ![k] = "done"]
    /\ UNCHANGED <<command, procState, exitCause, pc, timeout, tick, disk, ret,
                   call, tmpl, probe, recvd, exitFirst, history>>
    /\ UNCHANGED <<probeFailed, mspdir, desc>>

\* errchan <- err (peer.go 303).
MonitorSend(k) ==
    /\ monitor[k] = "send"
    /\ Len(errchan[ChanOf(k)]) < ChanCap
    /\ errchan' = [errchan EXCEPT ![ChanOf(k)] =
                      Append(@, [proc |-> k, cause |-> exitCause[k]])]
    /\ monitor' = [monitor EXCEPT ![k] = "done"]
    /\ UNCHANGED <<command, procState, exitCause, pc, timeout, tick, disk, ret,
                   call, tmpl, probe, recvd, exitFirst, history>>
    /\ UNCHANGED <<probeFailed, mspdir, desc>>

----------------------------------------------------------------------------
\* Stop() called by the owner of the Peer (peer.go 325-334).

\* A Stop() that also removes the node's directory.
StopCallCleans ==
    /\ pc = "idle"
    /\ Len(history) < MaxCalls
    /\ LET s == Stop(command) IN
          /\ command' = s.command
          /\ Signal(s.signalled)
          /\ ret' = [op |-> "Stop", err |-> s.err]
          /\ history' = Append(history, Class("Stop", s.err))
    /\ disk' = [tree |-> 0, msp |-> EmptyMSP, core |-> AbsentFile, log |-> FALSE]
    /\ UNCHANGED <<monitor, errchan, pc, timeout, tick, call, tmpl,
                   probe, recvd, exitFirst>>
    /\ UNCHANGED <<probeFailed, mspdir, desc>>

StopCall ==
    /\ pc = "idle"
    /\ Len(history) < MaxCalls
    /\ LET s == Stop(command) IN
          /\ command' = s.command
          /\ Signal(s.signalled)
          /\ ret' = [op |-> "Stop", err |-> s.err]
          /\ history' = Append(history, Class("Stop", s.err))
    /\ UNCHANGED <<monitor, errchan, pc, timeout, tick, disk, call, tmpl,
                   probe, recvd, exitFirst>>
    /\ UNCHANGED <<probeFailed, mspdir, desc>>

Next ==
    \/ StartCreateDirectories
    \/ StartCreateMSP
    \/ StartCreateConfig
    \/ StartSpawn
    \/ TimeoutFire
    \/ Tick
    \/ SelectTimeout
    \/ SelectErrchan
    \/ SelectTick
    \/ ProbeReturn
    \/ \E k \in Procs : ProcExit(k)
    \/ \E k \in Procs : MonitorWait(k)
    \/ \E k \in Procs : MonitorSend(k)
    \/ StopCall

Spec == Init /\ [][Next]_vars

\* hasStarted() while no process of the Peer runs: nothing listens on the
\* operations port, the connection is refused and http.Get returns at once.
ProbeRefused ==
    /\ \A k \in Procs : ~Running(k)
    /\ ProbeReturn

\* Everything the code schedules by itself is fair: the steps of Start(),
\* the timer, the select cases, the goroutine, a refused probe.  Nothing
\* makes hasStarted() return while a process holds the connection open:
\* http.Get uses http.DefaultClient, which has no timeout.
FairSpec ==
    /\ Spec
    /\ WF_vars(ProbeRefused)
    /\ WF_vars(StartCreateMSP)
    /\ WF_vars(StartCreateConfig)
    /\ WF_vars(StartSpawn)
    /\ WF_vars(TimeoutFire)
    /\ WF_vars(Tick)
    /\ SF_vars(SelectTimeout)
    /\ SF_vars(SelectErrchan)
    /\ \A k \in Procs : WF_vars(MonitorWait(k)) /\ WF_vars(MonitorSend(k))

----------------------------------------------------------------------------
\* Properties

StartReturned(err) == pc = "idle" /\ ret = [op |-> "Start", err |-> err]

DiskComplete ==
    /\ disk.tree = TreeDirs
    /\ MSPComplete(disk.msp, PeerIdentity)
    /\ disk.core = CoreYaml

\* C1: when Start() returns the start-timeout error, no process spawned by
\* this Peer is still running.
C1_NoProcessAfterTimeout ==
    StartReturned("timeout") => \A k \in Procs : ~Running(k)

\* C2: when the spawned process ended by itself during the wait, before the
\* timeout fired, the monitor goroutine reports the exit whatever the exit
\* status: once the goroutine is done, the exit is in errchan or Start() has
\* returned the process-exit error.
C2_ExitIsReported ==
    (call.proc # NoProc /\ exitFirst /\ monitor[call.proc] = "done")
        => \/ errchan[ChanOf(call.proc)] # <<>>
           \/ StartReturned("exit")

\* C3: Start() returns success only when the probe of one tick passed both
\* phases: /healthz answered 200, and the admin connection opened and
\* ListChannels succeeded.
C3_SuccessNeedsBothPhases ==
    StartReturned("nil")
        => probe.healthz = "200" /\ probe.connect /\ probe.list

C3_Witness ==
    /\ StartReturned("nil")
    /\ probe = [healthz |-> "200", connect |-> TRUE, list |-> TRUE]
    /\ call.proc # NoProc

StopStep ==
    /\ pc = "idle"
    /\ ret'.op = "Stop"
    /\ Len(history') = Len(history) + 1

\* C4: Stop() on a Peer without a process handle returns nil and changes
\* nothing; a Stop() that directly follows a Stop() returns nil and leaves
\* the Peer as the first one left it.
C4_StopIdempotent ==
    [][StopStep =>
          /\ command = NoProc =>
                /\ ret'.err = "nil"
                /\ UNCHANGED <<command, procState, exitCause, disk>>
          /\ ret.op = "Stop" =>
                /\ ret'.err = "nil"
                /\ UNCHANGED <<command, procState, exitCause, disk>>]_vars

\* C5: when Stop() returns a stop error, the process handle is nil.
C5_HandleClearedOnStopError ==
    (pc = "idle" /\ ret.op = "Stop" /\ ret.err # "nil") => command = NoProc

\* C6: at most one process spawned by the Peer is alive.
C6_AtMostOneLiveProcess ==
    Cardinality({k \in Procs : Running(k)}) <= 1

\* C7: Start() is about to spawn, or has spawned, the process only with the
\* directory tree, the complete MSP directory and the patched core.yaml
\* written.
C7_SpawnAfterWrites ==
    (pc = "spawn" \/ (Waiting /\ call.proc # NoProc)) => DiskComplete

C7_Witness ==
    /\ pc = "select"
    /\ call.proc # NoProc
    /\ Running(call.proc)
    /\ DiskComplete

\* C8: a Start() that returns a configuration or I/O error has spawned no
\* process and left the handle as it was at entry; a missing-section error
\* names a section the template lacks, a template lacking exactly one
\* section yields the error naming it, and no Start() gets past createConfig
\* with a section missing.
C8_SetupFailureSpawnsNothing ==
    /\ (pc = "idle" /\ ret.op = "Start" /\ ret.err \in SetupErrors) =>
          /\ call.proc = NoProc
          /\ NumSpawned = call.n0
          /\ command = call.cmd0
    /\ \A s \in Sections :
          /\ (pc = "idle" /\ ret = [op |-> "Start", err |-> MissingSection(s)])
                => (tmpl # Unread /\ s \notin tmpl)
          /\ (pc \notin {"CreateMSPDirectory", "createConfig"}
              /\ ret.op = "Start" /\ tmpl = Sections \ {s})
                => StartReturned(MissingSection(s))
    /\ (pc = "spawn" \/ Waiting) => tmpl = Sections

C8_Witness ==
    /\ StartReturned(MissingSection("vm"))
    /\ tmpl = Sections \ {"vm"}
    /\ call.cmd0 # NoProc
    /\ command = call.cmd0
    /\ Running(command)

\* C9: every Start() call eventually returns.
C9_StartEventuallyReturns ==
    (pc # "idle") ~> (pc = "idle")

\* C10: a Start() spawns a fresh process and sets the handle to it, and the
\* exit it receives from errchan is the exit of the process it spawned, never
\* that of a process of an earlier call.
C10_OwnExitOnly ==
    /\ Waiting => (command = call.proc /\ call.proc = call.n0 + 1)
    /\ StartReturned("exit") => recvd = call.proc

C10_Witness ==
    /\ Len(history) = 3
    /\ history[1] = "StartOk"
    /\ history[2] = "StopOk"
    /\ StartReturned("exit")
    /\ call.proc = 2
    /\ recvd = 2
    /\ exitCause[1] = "killed"
    /\ errchan[ChanOf(1)] # <<>>

\* C11: a Stop() that follows a Start() which returned the start-timeout or
\* the process-exit error returns nil and leaves the Peer without a handle.
C11_StopAfterFailedStart ==
    (/\ pc = "idle"
     /\ ret.op = "Stop"
     /\ Len(history) >= 2
     /\ history[Len(history) - 1] \in {"StartTimeout", "StartExit"})
        => (ret.err = "nil" /\ command = NoProc)

-----------------------------------------------------------------------------
\* util.CreateMSPDirectory as a function of the directory it finds, the
\* identity and the write that fails (0: none).

\* A file left by an earlier run with another identity.
StaleFile == "stale"

OldFiles == {AbsentFile, PartialFile, StaleFile}

\* The MSP directory before the call: a file exists only in a directory that
\* exists (directory, admincerts, cacerts, keystore, signcerts in this order).
MSPStates ==
    {f \in [dirs : 0..5, config : OldFiles, key : OldFiles, cert : OldFiles,
            ca : OldFiles] :
        /\ f.config # AbsentFile => f.dirs >= 1
        /\ f.ca # AbsentFile => f.dirs >= 3
        /\ f.key # AbsentFile => f.dirs >= 4
        /\ f.cert # AbsentFile => f.dirs >= 5}

\* identity.CA() is nil for an identity without an issuer.
Identities == {[PeerIdentity EXCEPT !.ca = c] : c \in {"none", "CA"}}

InitMSPDir ==
    /\ PeerInit
    /\ desc = NoDescCall
    /\ mspdir \in [before : MSPStates, identity : Identities,
                   failAt : 0..MSPSteps, fs : {EmptyMSP}, err : {"pending"}]

CallCreateMSPDirectory ==
    /\ mspdir.err = "pending"
    /\ LET r == CreateMSPDirectory(mspdir.before, mspdir.identity, mspdir.failAt)
       IN mspdir' = [mspdir EXCEPT !.fs = r.fs, !.err = r.err]
    /\ UNCHANGED <<command, procState, exitCause, monitor, errchan, pc, timeout,
                   tick, disk, ret, call, tmpl, probe, recvd, exitFirst,
                   history, probeFailed, desc>>

SpecMSPDir == InitMSPDir /\ [][CallCreateMSPDirectory]_vars

\* C12: when CreateMSPDirectory returns nil, the directory and its four
\* subdirectories exist, config.yaml, key.pem and cert.pem hold the NodeOUs
\* configuration, the identity's private key and its certificate, and ca.pem
\* was written if and only if the identity has a CA.
C12_MSPDirectoryWritten ==
    mspdir.err = "nil" =>
        /\ mspdir.fs.dirs = 5
        /\ mspdir.fs.config = ConfigYaml
        /\ mspdir.fs.key = mspdir.identity.key
        /\ mspdir.fs.cert = mspdir.identity.cert
        /\ mspdir.identity.ca # "none" => mspdir.fs.ca = mspdir.identity.ca
        /\ mspdir.identity.ca = "none" => mspdir.fs.ca = mspdir.before.ca

C12_Witness ==
    /\ mspdir.err = "nil"
    /\ mspdir.identity.ca = "none"
    /\ mspdir.before = EmptyMSP
    /\ mspdir.fs.ca = AbsentFile
    /\ mspdir.fs.key = mspdir.identity.key
    /\ mspdir.fs.dirs = 5

\* The bounded wait of Start() ends: the step that returns from the loop.
WaitEnds == Waiting /\ pc' = "idle"

\* C13 as stated: the event that occurs first decides. Success only with
\* the timeout not yet elapsed and the process not yet exited, the timeout
\* error only if the process had not exited before the timeout elapsed, the
\* exit error only if the process exited before the timeout elapsed.
C13_FirstEventDecides ==
    [][WaitEnds =>
          /\ ret'.err = "nil" => (timeout # "fired" /\ Running(call.proc))
          /\ ret'.err = "timeout" => ~exitFirst
          /\ ret'.err = "exit" => exitFirst]_vars

\* C13 amended: the event the select loop takes first decides. Success
\* comes only from a probe that returned true, the timeout error only from
\* the timeout case with the timeout elapsed, the exit error only from the
\* errchan case with the message of this call's process, reaped with a
\* non-zero status.
C13_TakenEventDecides ==
    [][WaitEnds =>
          /\ ret'.op = "Start"
          /\ ret'.err \in {"nil", "timeout", "exit"}
          /\ ret'.err = "nil" =>
                 (pc = "hasStarted"
                  /\ hasStarted(probe'.healthz, probe'.connect, probe'.list))
          /\ ret'.err = "timeout" => (pc = "select" /\ timeout = "fired")
          /\ ret'.err = "exit" =>
                 (pc = "select"
                  /\ recvd' = call.proc
                  /\ procState[call.proc] = "reaped"
                  /\ exitCause[call.proc] = "fail")]_vars

\* The timeout error returned although the process had exited before the
\* timeout elapsed.
C13_Witness ==
    /\ StartReturned("timeout")
    /\ call.proc # NoProc
    /\ exitFirst

\* C14 as stated: a tick that fires while a probe is in flight is skipped,
\* never queued.
C14_TicksSkippedInFlight == pc = "hasStarted" => ~tick

\* C14 amended: one probe is in flight at most and a probe begins only in
\* the select loop by taking the tick out of the ticker's channel; the
\* channel holds one tick, so a tick that fires during a probe is kept and
\* starts the next probe, and only the ticks after it are dropped. While a
\* probe is in flight no other case of the select is taken.
C14_OneProbeOneHeldTick ==
    [][/\ (pc' = "hasStarted" /\ pc # "hasStarted") =>
              (pc = "select" /\ tick /\ ~tick')
       /\ (pc = "hasStarted" /\ pc' # "hasStarted") =>
              (pc' = "select" \/ (pc' = "idle" /\ ret'.err = "nil"))
       /\ (pc = "hasStarted" /\ tick) => (tick' \/ pc' = "idle")]_vars

\* A tick fired during a probe and is held for the next one.
C14_Witness ==
    /\ pc = "hasStarted"
    /\ tick
    /\ call.proc # NoProc
    /\ probeFailed

\* C15: the step in which hasStarted() returns false does not return from
\* Start() and changes neither the handle nor any process nor the disk: the
\* loop is back at the select, where the next tick starts another probe.
C15_ProbeFailureNotSurfaced ==
    [][(pc = "hasStarted" /\ pc' # "hasStarted" /\ probeFailed') =>
          /\ pc' = "select"
          /\ UNCHANGED <<command, procState, exitCause, ret, history, disk,
                         monitor, errchan>>]_vars

\* A second probe is in flight after a failed one, with the process running
\* and the handle in place.
C15_Witness ==
    /\ pc = "hasStarted"
    /\ probeFailed
    /\ Running(call.proc)
    /\ command = call.proc

\* C16: the monitor goroutine of every process can always take its next
\* step: cmd.Wait() returns once the process has exited, and the send finds
\* room in the channel of its own Start() call, whether or not that call is
\* still receiving; a channel never holds more than the one notification of
\* its own process.
C16_MonitorNeverBlocks ==
    \A k \in Procs :
        /\ (monitor[k] = "wait" /\ procState[k] = "zombie") => ENABLED MonitorWait(k)
        /\ monitor[k] = "send" => ENABLED MonitorSend(k)
        /\ Len(errchan[ChanOf(k)]) <= ChanCap
        /\ \A i \in 1..Len(errchan[ChanOf(k)]) :
              /\ errchan[ChanOf(k)][i].proc = k
              /\ monitor[k] = "done"

\* The notification of a killed process sits in the channel after Start()
\* has returned; the monitor has finished.
C16_Witness ==
    /\ pc = "idle"
    /\ \E k \in Procs :
          /\ monitor[k] = "done"
          /\ exitCause[k] = "killed"
          /\ errchan[ChanOf(k)] # <<>>

\* Start() returned one of createConfig's configuration errors.
ConfigFailure == pc = "idle" /\ ret.op = "Start" /\ ret.err \in ConfigErrors

\* C17 as stated: after a configuration error the handle is as before the
\* call and the call created or wrote nothing on disk.
C17_ConfigErrorWritesNothing ==
    ConfigFailure => (command = call.cmd0 /\ call.writes = {})

\* C17 amended: after a configuration error the handle is as before the
\* call, no process was spawned and neither core.yaml nor the log file was
\* written by the call; the directory tree and the MSP directory were
\* written before createConfig ran and are complete.
C17_ConfigErrorKeepsHandle ==
    ConfigFailure =>
        /\ command = call.cmd0
        /\ NumSpawned = call.n0
        /\ call.proc = NoProc
        /\ call.writes = {"tree", "msp"}
        /\ disk.tree = TreeDirs
        /\ MSPComplete(disk.msp, PeerIdentity)

\* A first Start() stopped by a missing section: tree and MSP are on disk,
\* core.yaml is not.
C17_Witness ==
    /\ ConfigFailure
    /\ ret.err = MissingSection("vm")
    /\ call.writes = {"tree", "msp"}
    /\ disk.core = AbsentFile
    /\ MSPComplete(disk.msp, PeerIdentity)

\* C18: a Stop() leaves the disk as it is and touches nothing of the Peer
\* but the handle; the only other effect is the signal to the process.
C18_StopKeepsDisk ==
    [][StopStep =>
          /\ UNCHANGED <<disk, pc, call, tmpl, probe, monitor, errchan>>
          /\ command' \in {command, NoProc}
          /\ \A k \in Procs : k # command => procState'[k] = procState[k]]_vars

\* Stop() has killed the process of a started peer; everything Start()
\* wrote is still on disk.
C18_Witness ==
    /\ pc = "idle"
    /\ ret = [op |-> "Stop", err |-> "nil"]
    /\ command = NoProc
    /\ \E k \in Procs : exitCause[k] = "killed"
    /\ DiskComplete
    /\ disk.log

\* C20: the handle names only a command whose cmd.Start() succeeded, a
\* Start() that fails before or at the spawn leaves the handle as it was,
\* and the process Stop() would signal has been started.
C20_HandleOnlyForSpawned ==
    /\ command # NoProc => procState[command] # "unborn"
    /\ (pc = "idle" /\ ret.op = "Start" /\ ret.err \in SetupErrors) =>
           command = call.cmd0
    /\ Stop(command).signalled # NoProc =>
           procState[Stop(command).signalled] # "unborn"

\* cmd.Start() failed in a Start() called on a Peer that holds a handle.
C20_Witness ==
    /\ StartReturned("spawn")
    /\ command = call.cmd0
    /\ command # NoProc
    /\ procState[command] # "unborn"

-----------------------------------------------------------------------------
\* msp.New and the accessors of MSP

\* Longest certificate list given to New.
MaxCerts == 2

Certs == {"cert1", "cert2"}

CertLists == UNION {[1..n -> Certs] : n \in 0..MaxCerts}

MSPIDs == {"", "Org1MSP", "Org2MSP"}

\* New returns the struct of its three arguments and a nil error.
New(mspID, rootCertificates, adminCertificates) ==
    [msp |-> [mspID |-> mspID,
              rootCertificates |-> rootCertificates,
              adminCertificates |-> adminCertificates],
     err |-> "nil"]

ID(m) == m.mspID

RootCertificates(m) == m.rootCertificates

AdminCertificates(m) == m.adminCertificates

InitNew ==
    /\ PeerInit
    /\ mspdir = NoMSPCall
    /\ desc \in [mspID : MSPIDs, roots : CertLists, admins : CertLists,
                 out : {NoMSP}, err : {"pending"}]

CallNew ==
    /\ desc.err = "pending"
    /\ LET r == New(desc.mspID, desc.roots, desc.admins)
       IN desc' = [desc EXCEPT !.out = r.msp, !.err = r.err]
    /\ UNCHANGED <<command, procState, exitCause, monitor, errchan, pc, timeout,
                   tick, disk, ret, call, tmpl, probe, recvd, exitFirst,
                   history, probeFailed, mspdir>>

SpecNew == InitNew /\ [][CallNew]_vars

\* C19: New does not accept an empty mspID, and for a non-empty one it
\* returns, without error, a descriptor whose accessors give back the three
\* arguments unchanged and in order.
C19_NewRejectsEmptyID ==
    desc.err # "pending" =>
        IF desc.mspID = "" THEN desc.err # "nil"
        ELSE /\ desc.err = "nil"
             /\ ID(desc.out) = desc.mspID
             /\ RootCertificates(desc.out) = desc.roots
             /\ AdminCertificates(desc.out) = desc.admins

====
